---- MODULE Spec2Model ----
(***************************************************************************)
(* DocumentArrayMemmap (jina/types/arrays/memmap.py): a document store     *)
(* made of a header file of fixed-width entries, a body file of            *)
(* concatenated payloads, an in-memory header map and a buffer pool.       *)
(*                                                                         *)
(* Files are modelled as they are on disk (headerFile, bodyFile) together  *)
(* with the bytes still held in the write buffers of the two open file     *)
(* objects (headerBuf, bodyBuf): a write reaches the disk on flush, seek   *)
(* or close, and a memory map of the body sees the disk only.              *)
(***************************************************************************)
EXTENDS Integers, Sequences, FiniteSets, TLC

VARIABLES headerFile,   \* header.bin on disk: sequence of entries
          headerBuf,    \* entries written to self._header, not yet flushed
          bodyFile,     \* body.bin on disk: sequence of bytes
          bodyBuf,      \* bytes written to self._body, not yet flushed
          bodyPos,      \* position of the self._body file object
          header_map,   \* self._header_map, in dict (insertion) order
          start,        \* self._start
          buffer_pool,  \* self.buffer_pool: key -> cached Document
          last,         \* the last operation, its arguments and outcome
          appended,     \* history, per key: appends since the key was last
                        \* deleted or loaded
          written,      \* history: end offset of the last payload appended
          gen           \* the generator of __iter__ a caller is stepping through

vars == <<headerFile, headerBuf, bodyFile, bodyBuf, bodyPos, header_map,
          start, buffer_pool, last, appended, written, gen>>

----------------------------------------------------------------------------
(* Bounds of the model *)

\* physical header slots a store may hold before appends are no longer tried
MaxSlots == 3

Keys == {"a", "b"}

\* contents of a Document besides its id
Texts == {<<1>>, <<2, 2>>}

Docs == [id : Keys, text : Texts]

----------------------------------------------------------------------------
(* Program constants *)

\* mmap.ALLOCATIONGRANULARITY on this platform
PAGE_SIZE == 4096

\* default key_length of the constructor
KeyLength == 36

HEADER_NONE_ENTRY == <<-1, -1, -1>>

----------------------------------------------------------------------------
(* Binary codec of a Document *)

KeyCode(k) == CASE k = "a" -> 11 [] k = "b" -> 12

CodeKey(c) == CHOOSE k \in Keys : KeyCode(k) = c

Corrupt == [id |-> "?", text |-> <<>>]

\* doc.binary_str(): the id followed by the content
binary_str(doc) == <<KeyCode(doc.id)>> \o doc.text

\* Document(bytes): parses what binary_str produced
Document(bytes) ==
    IF Len(bytes) > 0 /\ bytes[1] \in {KeyCode(k) : k \in Keys}
    THEN [id |-> CodeKey(bytes[1]), text |-> Tail(bytes)]
    ELSE Corrupt

----------------------------------------------------------------------------
(* Files *)

MaxOf(a, b) == IF a >= b THEN a ELSE b

\* int(a / b) of Python: true division, truncated toward zero
TruncDiv(a, b) == IF a >= 0 THEN a \div b ELSE -((-a) \div b)

\* writing bytes at a position of a file: overwrites, extends, zero-fills a gap
WriteAt(file, pos, bytes) ==
    IF Len(bytes) = 0 THEN file
    ELSE [i \in 1..MaxOf(Len(file), pos + Len(bytes)) |->
            IF i > pos /\ i <= pos + Len(bytes) THEN bytes[i - pos]
            ELSE IF i <= Len(file) THEN file[i] ELSE 0]

Entry(key, p, r, l) == [key |-> key, p |-> p, r |-> r, l |-> l]

IsNone(e) == <<e.p, e.r, e.l>> = HEADER_NONE_ENTRY

\* 24 + 4 * self._key_length
HeaderEntrySize == 24 + 4 * KeyLength

----------------------------------------------------------------------------
(* self._header_map: a dict, kept as the sequence of its items *)

MapKeys(m) == {m[i].key : i \in DOMAIN m}

MapGet(m, k) == m[CHOOSE i \in DOMAIN m : m[i].key = k]

MapItem(k, idx, p, r, l) == [key |-> k, idx |-> idx, p |-> p, r |-> r, l |-> l]

\* m[k] = v: an existing key keeps its place, a new key goes last
MapSet(m, k, idx, p, r, l) ==
    IF k \in MapKeys(m)
    THEN [i \in DOMAIN m |-> IF m[i].key = k THEN MapItem(k, idx, p, r, l) ELSE m[i]]
    ELSE Append(m, MapItem(k, idx, p, r, l))

MapPop(m, k) == SelectSeq(m, LAMBDA e : e.key # k)

----------------------------------------------------------------------------
(* Buffer pool: key -> cached Document. The default capacity of 1000 entries *)
(* is never reached by the stores of this model, so nothing is evicted.     *)

PoolKeys(pool) == DOMAIN pool

EmptyPool == [k \in {} |-> Corrupt]

add_or_update(pool, k, doc) == [x \in DOMAIN pool \cup {k} |-> IF x = k THEN doc ELSE pool[x]]

delete_if_exists(pool, k) == [x \in DOMAIN pool \ {k} |-> pool[x]]

----------------------------------------------------------------------------
(* A store object with its files: the value the operations transform *)

Cur == [hf |-> headerFile, hb |-> headerBuf, bf |-> bodyFile, bb |-> bodyBuf,
        bpos |-> bodyPos, map |-> header_map, start |-> start,
        pool |-> buffer_pool, err |-> ""]

NewStore == [hf |-> <<>>, hb |-> <<>>, bf |-> <<>>, bb |-> <<>>, bpos |-> 0,
             map |-> <<>>, start |-> 0, pool |-> EmptyPool, err |-> ""]

Raise(S, e) == [S EXCEPT !.err = e]

\* self._header.flush(), also the effect of seek and close on pending writes
FlushHeader(S) == [S EXCEPT !.hf = S.hf \o S.hb, !.hb = <<>>]

\* self._body.flush()
FlushBody(S) == [S EXCEPT !.bf = WriteAt(S.bf, S.bpos - Len(S.bb), S.bb), !.bb = <<>>]

----------------------------------------------------------------------------
(* Loading *)

RECURSIVE LoadMapUpTo(_, _)
\* the dict comprehension over enumerate(tmp): tombstones are skipped, a key
\* met again keeps its place in the dict and takes the later slot
LoadMapUpTo(tmp, n) ==
    IF n = 0 THEN <<>>
    ELSE LET m == LoadMapUpTo(tmp, n - 1)
             e == tmp[n]
         IN  IF IsNone(e) THEN m
             ELSE MapSet(m, e.key, n - 1, e.p, e.r, e.l)

LoadMap(tmp) == LoadMapUpTo(tmp, Len(tmp))

\* _load_header_body(mode): mode 'wb' truncates both files, mode 'a' keeps them.
\* The old file objects are closed first, which writes out their buffers.
\* seek() to a negative offset raises OSError and leaves the position at 0.
load_header_body(S, truncate) ==
    LET c   == FlushBody(FlushHeader(S))
        hf  == IF truncate THEN <<>> ELSE c.hf
        bf  == IF truncate THEN <<>> ELSE c.bf
        m   == LoadMap(hf)
        st  == IF m # <<>> THEN hf[Len(hf)].p + hf[Len(hf)].l ELSE 0
    IN  [c EXCEPT !.hf = hf, !.bf = bf, !.map = m, !.start = st,
                  !.bpos = IF st >= 0 THEN st ELSE 0,
                  !.err = IF st < 0 THEN "OSError" ELSE c.err]

\* reload that opens the files in mode 'wb'
reload_truncating(S) == load_header_body(S, TRUE)

\* reload(): the pool is cleared only when loading returned
reload(S) ==
    LET n == load_header_body(S, FALSE)
    IN  IF n.err # "" THEN n ELSE [n EXCEPT !.pool = EmptyPool]

\* clear()
clear(S) == load_header_body(S, TRUE)

\* __init__ of a new process on the directory: the files that exist are kept,
\* a missing file is created empty; nothing of the old process is in memory.
\* When _load_header_body raises, so does __init__: err is set, the caller
\* gets no object and the pool is never built.
Open(hf, bf) ==
    load_header_body([NewStore EXCEPT !.hf = hf, !.bf = bf], FALSE)

----------------------------------------------------------------------------
(* Reading *)

Found(doc) == [err |-> "", doc |-> doc]

Failed(e) == [err |-> e, doc |-> Corrupt]

\* get_doc_by_key: maps length l of the body file from offset p and parses
\* the bytes from r on; a length of 0 maps the file from p to its end. The
\* map fails when the file is empty, when it is shorter than p + l, or when
\* p is not inside it; the parse fails on bytes that are no encoding of a
\* Document
get_doc_by_key(S, key) ==
    IF key \notin MapKeys(S.map) THEN Failed("KeyError")
    ELSE LET e    == MapGet(S.map, key)
             stop == IF e.l = 0 THEN Len(S.bf) ELSE e.p + e.l
             d    == Document(SubSeq(S.bf, e.p + e.r + 1, stop))
         IN  IF e.p + e.l > Len(S.bf) THEN Failed("ValueError")
             ELSE IF e.l = 0 /\ e.p >= Len(S.bf) THEN Failed("ValueError")
             ELSE IF d = Corrupt THEN Failed("BadDocType")
             ELSE Found(d)

\* __getitem__ with a str key
getitem(S, key) ==
    IF key \in PoolKeys(S.pool) THEN Found(S.pool[key])
    ELSE get_doc_by_key(S, key)

\* __contains__
contains(S, key) == key \in MapKeys(S.map)

\* __len__
len(S) == Len(S.map)

\* __iter__: one item per key of the header map, in dict order; iteration
\* ends at the first read that raises
RECURSIVE IterUpTo(_, _)
IterUpTo(S, n) ==
    IF n = 0 THEN <<>>
    ELSE LET before == IterUpTo(S, n - 1)
         IN  IF Len(before) = n - 1 /\ (n = 1 \/ before[n - 1].err = "")
             THEN Append(before, [key |-> S.map[n].key] @@ getitem(S, S.map[n].key))
             ELSE before

iter(S) == IterUpTo(S, Len(S.map))

IterFails(S) == \E i \in DOMAIN iter(S) : iter(S)[i].err # ""

\* _int2str_id: reads the key field of physical slot `key`; the seek writes
\* out pending header entries; an empty read makes d_id[0] raise IndexError
int2str_flush(S) == FlushHeader(S)

int2str_ok(S, key) == key < Len(S.hf) + Len(S.hb)

int2str_id(S, key) == (S.hf \o S.hb)[key + 1].key

\* _str2int_id
str2int_id(S, key) == MapGet(S.map, key).idx

\* __getitem__ with an int key: self[self._int2str_id(key)]
getitem_int(S, key) ==
    LET s1 == int2str_flush(S)
    IN  IF ~int2str_ok(s1, key) THEN Failed("IndexError")
        ELSE getitem(s1, int2str_id(s1, key))

----------------------------------------------------------------------------
(* Writing *)

\* append that never caches the document
append_uncached(S, doc, flush, update_buffer) ==
    LET value == binary_str(doc)
        l     == Len(value)
        p     == TruncDiv(S.start, PAGE_SIZE) * PAGE_SIZE
        r     == S.start % PAGE_SIZE
        s1    == [S EXCEPT !.hb = Append(S.hb, Entry(doc.id, p, r, r + l)),
                           !.map = MapSet(S.map, doc.id, Len(S.map), p, r, r + l),
                           !.start = p + r + l,
                           !.bb = S.bb \o value,
                           !.bpos = S.bpos + l]
    IN  IF flush THEN FlushBody(FlushHeader(s1)) ELSE s1

\* append(doc, flush, update_buffer)
append(S, doc, flush, update_buffer) ==
    LET value == binary_str(doc)
        l     == Len(value)
        p     == TruncDiv(S.start, PAGE_SIZE) * PAGE_SIZE
        r     == S.start % PAGE_SIZE
        s1    == [S EXCEPT !.hb = Append(S.hb, Entry(doc.id, p, r, r + l)),
                           !.map = MapSet(S.map, doc.id, Len(S.map), p, r, r + l),
                           !.start = p + r + l,
                           !.bb = S.bb \o value,
                           !.bpos = S.bpos + l]
        s2    == IF flush THEN FlushBody(FlushHeader(s1)) ELSE s1
    IN  IF update_buffer
        THEN [s2 EXCEPT !.pool = add_or_update(s2.pool, doc.id, doc)]
        ELSE s2

\* the header file after writing a tombstone for str_key at slot idx
Tombstoned(hf, idx, str_key) ==
    [i \in 1..MaxOf(Len(hf), idx + 1) |->
        IF i = idx + 1 THEN Entry(str_key, -1, -1, -1)
        ELSE IF i <= Len(hf) THEN hf[i] ELSE Entry("", 0, 0, 0)]

\* _del_doc that leaves the key in the header map
del_doc_unpopped(S, idx, str_key) ==
    LET s1 == FlushHeader(S)
        s2 == [s1 EXCEPT !.hf = Tombstoned(s1.hf, idx, str_key)]
    IN  IF str_key \notin MapKeys(s2.map) THEN Raise(s2, "KeyError")
        ELSE [s2 EXCEPT !.pool = delete_if_exists(s2.pool, str_key)]

\* _del_doc that leaves the key in the buffer pool
del_doc_cached(S, idx, str_key) ==
    LET s1 == FlushHeader(S)
        s2 == [s1 EXCEPT !.hf = Tombstoned(s1.hf, idx, str_key)]
    IN  IF str_key \notin MapKeys(s2.map) THEN Raise(s2, "KeyError")
        ELSE [s2 EXCEPT !.map = MapPop(s2.map, str_key)]

\* _del_doc(idx, str_key): the tombstone is written and flushed before the
\* key is popped, so a KeyError leaves the tombstone on disk
del_doc(S, idx, str_key) ==
    LET s1 == FlushHeader(S)
        s2 == [s1 EXCEPT !.hf = Tombstoned(s1.hf, idx, str_key)]
    IN  IF str_key \notin MapKeys(s2.map) THEN Raise(s2, "KeyError")
        ELSE [s2 EXCEPT !.map = MapPop(s2.map, str_key),
                        !.pool = delete_if_exists(s2.pool, str_key)]

\* __delitem__ with a str key
delitem_str(S, key) ==
    IF key \notin MapKeys(S.map) THEN Raise(S, "KeyError")
    ELSE del_doc(S, str2int_id(S, key), key)

\* __delitem__ with an int key that writes the tombstone without looking at
\* what the slot holds
delitem_int_unchecked(S, idx) ==
    LET s1 == int2str_flush(S)
    IN  del_doc(s1, idx, IF int2str_ok(s1, idx) THEN int2str_id(s1, idx) ELSE "")

\* __delitem__ with an int key
delitem_int(S, idx) ==
    LET s1 == int2str_flush(S)
    IN  IF ~int2str_ok(s1, idx) THEN Raise(s1, "IndexError")
        ELSE del_doc(s1, idx, int2str_id(s1, idx))

----------------------------------------------------------------------------
(* Slices: a bound is <<>> for None and <<i>> for the integer i *)

None == <<>>

Some(i) == <<i>>

RangeSeq(a, b) == [i \in 1..MaxOf(b - a, 0) |-> a + i - 1]

\* _iteridx_by_slice(s) with step 1: the indices range(start, stop) yields
iteridx_by_slice(S, s) ==
    LET n      == len(S)
        start0 == IF s.start = None \/ s.start = Some(0) THEN 0 ELSE s.start[1]
        stop0  == IF s.stop # None THEN s.stop[1] ELSE n
        stop1  == IF 0 > stop0 /\ stop0 >= -n THEN stop0 + n ELSE stop0
        start1 == IF 0 > start0 /\ start0 >= -n THEN start0 + n ELSE start0
        both   == IF start1 <= stop1
                  THEN IF (start1 < 0 /\ stop1 < 0) \/ (start1 > n /\ stop1 > n)
                       THEN <<0, 0>>
                       ELSE IF start1 < 0 /\ stop1 > n THEN <<0, n>>
                       ELSE IF start1 < 0 THEN <<0, stop1>>
                       ELSE IF stop1 > n THEN <<start1, n>>
                       ELSE <<start1, stop1>>
                  ELSE <<start1, stop1>>
    IN  RangeSeq(both[1], both[2])

RECURSIVE GetEach(_, _, _)
\* the loop of _get_doc_array_by_slice over the indices of a slice: the
\* documents collected, and the error of the first read that raises
GetEach(S, idxs, n) ==
    IF n = 0 THEN [err |-> "", docs |-> <<>>]
    ELSE LET before == GetEach(S, idxs, n - 1)
             d      == getitem_int(S, idxs[n])
         IN  IF before.err # "" THEN before
             ELSE IF d.err # "" THEN [before EXCEPT !.err = d.err]
             ELSE [before EXCEPT !.docs = Append(before.docs, d.doc)]

\* _get_doc_array_by_slice(s)
get_doc_array_by_slice(S, s) ==
    LET idxs == iteridx_by_slice(S, s)
    IN  GetEach(S, idxs, Len(idxs))

RECURSIVE DelEach(_, _, _)
\* the loop of __delitem__ over the indices of a slice, ended by the first raise
DelEach(S, idxs, n) ==
    IF n = 0 THEN S
    ELSE LET s1 == DelEach(S, idxs, n - 1)
         IN  IF s1.err # "" THEN s1 ELSE delitem_int(s1, idxs[n])

\* __delitem__ with a slice key
delitem_slice(S, s) ==
    LET idxs == iteridx_by_slice(S, s)
    IN  DelEach(S, idxs, Len(idxs))

----------------------------------------------------------------------------
(* Batches, overwriting and compaction *)

RECURSIVE AppendEach(_, _, _)
\* the loop of extend: append without flush, then cache the document
AppendEach(S, docs, n) ==
    IF n = 0 THEN S
    ELSE LET s1 == append(AppendEach(S, docs, n - 1), docs[n], FALSE, TRUE)
         IN  [s1 EXCEPT !.pool = add_or_update(s1.pool, docs[n].id, docs[n])]

\* extend(values)
extend(S, docs) == FlushBody(FlushHeader(AppendEach(S, docs, Len(docs))))

\* __setitem__ with an int key
setitem_int(S, key, value) ==
    IF 0 <= key /\ key < len(S)
    THEN LET s1      == int2str_flush(S)
             str_key == int2str_id(s1, key)
             s2      == append(s1, value, TRUE, TRUE)
             e       == MapGet(s2.map, value.id)
             s3      == [s2 EXCEPT !.map = MapSet(s2.map, str_key, e.idx, e.p, e.r, e.l),
                                   !.pool = add_or_update(s2.pool, str_key, value)]
             s4      == delitem_str(s3, value.id)
         IN  IF ~int2str_ok(s1, key) THEN Raise(s1, "IndexError")
             ELSE IF str_key # value.id
             THEN IF s4.err # "" THEN s4
                  ELSE [s4 EXCEPT !.pool = delete_if_exists(s4.pool, value.id)]
             ELSE s3
    ELSE Raise(S, "IndexError")

\* __setitem__ with a str key that leaves the document its own id
setitem_str_own_id(S, key, value) ==
    LET s1 == append(S, value, TRUE, TRUE)
    IN  [s1 EXCEPT !.pool = add_or_update(s1.pool, key, value)]

\* __setitem__ with a str key: the document takes the key as its id
setitem_str(S, key, value) ==
    LET doc == [value EXCEPT !.id = key]
        s1  == append(S, doc, TRUE, TRUE)
    IN  [s1 EXCEPT !.pool = add_or_update(s1.pool, key, doc)]

\* BufferPoolManager.flush(): appends the buffered entries that are not yet
\* durable. Every add_or_update of the store follows the append of the same
\* record and no operation changes a cached record afterwards, so the pool
\* holds no such entry and nothing is appended.
pool_flush(S) == S

\* save()
save(S) == pool_flush(S)

IterDocs(S) == [i \in DOMAIN iter(S) |-> iter(S)[i].doc]

\* the store prune() builds in the temporary directory: extend, then reload
Compacted(S) == reload(extend(NewStore, IterDocs(S)))

\* prune(): a read that raises while the copy is filled ends prune before any
\* file is touched; the buffers of the old file objects go to the removed files
prune(S) ==
    IF IterFails(S) THEN Raise(S, iter(S)[Len(iter(S))].err)
    ELSE LET dam == Compacted(S)
         IN  reload([S EXCEPT !.hf = dam.hf, !.bf = dam.bf, !.hb = <<>>, !.bb = <<>>])

----------------------------------------------------------------------------
(* The generator of __iter__, stepped by its caller. It walks the entries   *)
(* of the dict that was self._header_map at its first step: a popped key    *)
(* leaves a hole, a new key goes to the end. A new dict holds 5 entries     *)
(* before it is rebuilt, which the stores of this model do not reach.       *)

Hole == "<deleted>"

NoIter == [on |-> FALSE, arr |-> <<>>, used |-> 0, pos |-> 0, left |-> 0,
           same |-> FALSE]

\* self._header_map.keys() at the first step of the generator
IterOf(m) == [on |-> TRUE, arr |-> [i \in DOMAIN m |-> m[i].key],
              used |-> Len(m), pos |-> 0, left |-> Len(m), same |-> TRUE]

\* the entries of the dict under iteration after the store has changed its
\* header map to m
Track(g, m) ==
    IF ~(g.on /\ g.same) THEN g
    ELSE LET kept  == [i \in DOMAIN g.arr |->
                          IF g.arr[i] \in MapKeys(m) THEN g.arr[i] ELSE Hole]
             known == {g.arr[i] : i \in DOMAIN g.arr}
             keys  == [i \in DOMAIN m |-> m[i].key]
         IN  [g EXCEPT !.arr = kept \o SelectSeq(keys, LAMBDA k : k \notin known)]

\* _load_header_body binds self._header_map to a new dict: the generator
\* keeps walking the old one
Rebound(g) == IF g.on THEN [g EXCEPT !.same = FALSE] ELSE g

----------------------------------------------------------------------------
(* The state machine *)

NoDoc == Corrupt

\* the record of an operation: name and arguments; the outcome is filled in
\* when the operation is installed
Op(name) == [op |-> name, key |-> "", ord |-> -1, doc |-> NoDoc,
             flush |-> TRUE, ub |-> TRUE, point |-> 0, err |-> ""]

Slots(S) == Len(S.hf) + Len(S.hb)

Install(S, o) ==
    /\ headerFile' = S.hf
    /\ headerBuf' = S.hb
    /\ bodyFile' = S.bf
    /\ bodyBuf' = S.bb
    /\ bodyPos' = S.bpos
    /\ header_map' = S.map
    /\ start' = S.start
    /\ buffer_pool' = S.pool
    /\ last' = [o EXCEPT !.err = S.err]

Init ==
    /\ headerFile = <<>>
    /\ headerBuf = <<>>
    /\ bodyFile = <<>>
    /\ bodyBuf = <<>>
    /\ bodyPos = 0
    /\ header_map = <<>>
    /\ start = 0
    /\ buffer_pool = EmptyPool
    /\ last = Op("init")
    /\ appended = [k \in Keys |-> 0]
    /\ written = 0
    /\ gen = NoIter

\* the process holds a store object: a constructor that raised has returned
\* none, and the directory can only be opened again, with the same outcome
HasStore == ~(last.op \in {"crash_extend", "crash_prune"} /\ last.err # "")

DoAppend(doc, flush, ub) ==
    /\ HasStore
    /\ Slots(Cur) < MaxSlots
    /\ Install(append(Cur, doc, flush, ub),
               [Op("append") EXCEPT !.key = doc.id, !.doc = doc, !.flush = flush, !.ub = ub])

DoExtend(docs) ==
    /\ HasStore
    /\ Slots(Cur) + Len(docs) <= MaxSlots
    /\ Install(extend(Cur, docs), [Op("extend") EXCEPT !.ord = Len(docs)])

SetKey(k, doc) ==
    /\ HasStore
    /\ Slots(Cur) < MaxSlots
    /\ Install(setitem_str(Cur, k, doc), [Op("set_key") EXCEPT !.key = k, !.doc = doc])

SetInt(i, doc) ==
    /\ HasStore
    /\ Slots(Cur) < MaxSlots
    /\ Install(setitem_int(Cur, i, doc),
               [Op("set_int") EXCEPT !.ord = i, !.key = doc.id, !.doc = doc])

DelKey(k) ==
    /\ HasStore
    /\ Install(delitem_str(Cur, k), [Op("del_key") EXCEPT !.key = k])

DelInt(i) ==
    /\ HasStore
    /\ Install(delitem_int(Cur, i), [Op("del_int") EXCEPT !.ord = i])

DelSlice(s) ==
    /\ HasStore
    /\ Install(delitem_slice(Cur, s), Op("del_slice"))

Reload ==
    /\ HasStore
    /\ Install(reload(Cur), Op("reload"))

Clear ==
    /\ HasStore
    /\ Install(clear(Cur), Op("clear"))

Prune ==
    /\ HasStore
    /\ Install(prune(Cur), Op("prune"))

Save ==
    /\ HasStore
    /\ Install(save(Cur), Op("save"))

\* self[i] with an int i: the seek of _int2str_id writes out pending header
\* entries, nothing else changes
GetInt(i) ==
    /\ HasStore
    /\ Install(Raise(int2str_flush(Cur), getitem_int(Cur, i).err),
               [Op("get_int") EXCEPT !.ord = i])

\* self[s] with a slice s: the first _int2str_id writes out pending header
\* entries, an empty range reads nothing
GetSlice(s) ==
    /\ HasStore
    /\ Install(Raise(IF iteridx_by_slice(Cur, s) = <<>> THEN Cur ELSE int2str_flush(Cur),
                     get_doc_array_by_slice(Cur, s).err),
               Op("get_slice"))

\* list(self): the generator of __iter__ run to its end in one call
Iterate ==
    /\ HasStore
    /\ Install(Raise(Cur, IF IterFails(Cur) THEN iter(Cur)[Len(iter(Cur))].err ELSE ""),
               Op("iterate"))

\* next(g) on the generator of __iter__, the first one included: the dict
\* iterator raises RuntimeError when the dict has changed its size or when
\* it meets a key after it has yielded as many as the dict held; self[k]
\* may raise; any raise and the end of the dict end the generator
IterNext ==
    /\ HasStore
    /\ LET g    == IF gen.on THEN gen ELSE IterOf(header_map)
           live == Cardinality({i \in DOMAIN g.arr : g.arr[i] # Hole})
           nxt  == {i \in DOMAIN g.arr : i > g.pos /\ g.arr[i] # Hole}
           i    == CHOOSE x \in nxt : \A y \in nxt : x <= y
           k    == g.arr[i]
           r    == getitem(Cur, k)
           stop == IF g.used # live THEN "RuntimeError"
                   ELSE IF nxt = {} THEN "StopIteration"
                   ELSE IF g.left = 0 THEN "RuntimeError"
                   ELSE r.err
       IN  IF stop # ""
           THEN /\ Install(Raise(Cur, stop), Op("next"))
                /\ gen' = NoIter
           ELSE /\ Install(Cur, [Op("next") EXCEPT !.key = k, !.doc = r.doc])
                /\ gen' = [g EXCEPT !.pos = i, !.left = g.left - 1]

\* The files on disk when the process dies inside extend(docs): before the
\* final flushes nothing of the batch has left the buffers (point 0), then
\* self._header.flush() has run and self._body.flush() has not (point 1).
ExtendCrashDisk(S, docs, point) ==
    LET s1 == AppendEach(S, docs, Len(docs))
    IN  [hx |-> TRUE, bx |-> TRUE,
         hf |-> IF point = 0 THEN S.hf ELSE FlushHeader(s1).hf,
         bf |-> S.bf]

\* a crash inside extend, and a new process opening the directory; when the
\* constructor raises, the new process holds no store
CrashExtend(docs, point) ==
    /\ HasStore
    /\ Slots(Cur) + Len(docs) <= MaxSlots
    /\ LET d == ExtendCrashDisk(Cur, docs, point)
       IN  Install(Open(d.hf, d.bf),
                   [Op("crash_extend") EXCEPT !.ord = Len(docs), !.point = point])

\* The files on disk when the process dies inside prune(), after the copy in
\* the temporary directory is complete: before os.remove (point 0), after
\* the body is removed (1), after the header is removed (2), after the new
\* header is copied (3), after the new body is copied (4).
PruneCrashDisk(S, point) ==
    LET dam == Compacted(S)
    IN  [hx |-> point # 2,
         bx |-> point \notin {1, 2, 3},
         hf |-> IF point \in {0, 1} THEN S.hf ELSE IF point = 2 THEN <<>> ELSE dam.hf,
         bf |-> IF point = 0 THEN S.bf ELSE IF point = 4 THEN dam.bf ELSE <<>>]

\* a crash inside prune, and a new process opening the directory; when the
\* constructor raises, the new process holds no store
CrashPrune(point) ==
    /\ HasStore
    /\ ~IterFails(Cur)
    /\ LET d == PruneCrashDisk(Cur, point)
       IN  Install(Open(d.hf, d.bf), [Op("crash_prune") EXCEPT !.point = point])

----------------------------------------------------------------------------
(* Inputs *)

Ordinals == 0..MaxSlots

Slices == {[start |-> None, stop |-> None],
           [start |-> Some(1), stop |-> None],
           [start |-> None, stop |-> Some(-1)]}

FullSlice == [start |-> None, stop |-> None]

DocA1 == [id |-> "a", text |-> <<1>>]

DocB2 == [id |-> "b", text |-> <<2, 2>>]

DocA2 == [id |-> "a", text |-> <<2, 2>>]

Batches == {<<DocA1>>, <<DocB2>>, <<DocA1, DocB2>>, <<DocA1, DocA2>>}

\* no history is kept and no generator is being stepped through
NoHistory == UNCHANGED <<appended, written, gen>>

----------------------------------------------------------------------------
(* Spec: the operations with their default arguments *)

Next ==
    \/ \E doc \in Docs : DoAppend(doc, TRUE, TRUE) /\ NoHistory
    \/ \E docs \in Batches : DoExtend(docs) /\ NoHistory
    \/ \E k \in Keys, t \in Texts : SetKey(k, [id |-> k, text |-> t]) /\ NoHistory
    \/ \E i \in Ordinals, doc \in Docs : SetInt(i, doc) /\ NoHistory
    \/ \E k \in Keys : DelKey(k) /\ NoHistory
    \/ \E i \in Ordinals : DelInt(i) /\ NoHistory
    \/ \E s \in Slices : DelSlice(s) /\ NoHistory
    \/ Reload /\ NoHistory
    \/ Clear /\ NoHistory
    \/ Prune /\ NoHistory
    \/ Save /\ NoHistory

Spec == Init /\ [][Next]_vars

----------------------------------------------------------------------------
(* SpecAD: appends and deletes between loads, with their history *)

AfterLoad == [k \in Keys |-> IF k \in MapKeys(header_map') THEN 1 ELSE 0]

\* the keys a delete over the indices idxs was asked to remove: the key of
\* each slot the loop reached
Asked(idxs) ==
    {int2str_id(Cur, idxs[n]) : n \in {m \in DOMAIN idxs :
        int2str_ok(Cur, idxs[m]) /\ DelEach(Cur, idxs, m - 1).err = ""}}

Without(ks) == [k \in Keys |-> IF k \in ks THEN 0 ELSE appended[k]]

NextAD ==
    \/ \E doc \in {DocA1, DocB2} :
          /\ DoAppend(doc, TRUE, TRUE)
          /\ appended' = [appended EXCEPT ![doc.id] = @ + 1]
          /\ written' = start'
          /\ UNCHANGED gen
    \/ \E k \in Keys :
          DelKey(k) /\ appended' = Without({k}) /\ UNCHANGED <<written, gen>>
    \/ \E i \in Ordinals :
          DelInt(i) /\ appended' = Without(Asked(<<i>>)) /\ UNCHANGED <<written, gen>>
    \/ \E s \in Slices :
          /\ DelSlice(s)
          /\ appended' = Without(Asked(iteridx_by_slice(Cur, s)))
          /\ UNCHANGED <<written, gen>>
    \/ Reload /\ appended' = AfterLoad /\ UNCHANGED <<written, gen>>

SpecAD == Init /\ [][NextAD]_vars

----------------------------------------------------------------------------
(* SpecFlags: append with every combination of its flags *)

NextFlags ==
    \/ \E doc \in Docs, flush \in BOOLEAN, ub \in BOOLEAN :
          DoAppend(doc, flush, ub) /\ NoHistory
    \/ \E k \in Keys : DelKey(k) /\ NoHistory
    \/ Reload /\ NoHistory

SpecFlags == Init /\ [][NextFlags]_vars

----------------------------------------------------------------------------
(* SpecCrash: batches and compaction cut short by the death of the process *)

NextCrash ==
    \/ \E doc \in {DocA1, DocB2} : DoAppend(doc, TRUE, TRUE) /\ NoHistory
    \/ \E docs \in Batches : DoExtend(docs) /\ NoHistory
    \/ \E k \in Keys : DelKey(k) /\ NoHistory
    \/ Prune /\ NoHistory
    \/ \E docs \in Batches, point \in {0, 1} : CrashExtend(docs, point) /\ NoHistory
    \/ \E point \in 0..4 : CrashPrune(point) /\ NoHistory

SpecCrash == Init /\ [][NextCrash]_vars

----------------------------------------------------------------------------
(* SpecDel: deletes among appends (cached or not), overwrites by ordinal    *)
(* and reloads                                                              *)

NextDel ==
    \/ \E doc \in Docs, ub \in BOOLEAN : DoAppend(doc, TRUE, ub) /\ NoHistory
    \/ \E i \in Ordinals, doc \in {DocA1, DocB2} : SetInt(i, doc) /\ NoHistory
    \/ \E k \in Keys : DelKey(k) /\ NoHistory
    \/ Reload /\ NoHistory

SpecDel == Init /\ [][NextDel]_vars

----------------------------------------------------------------------------
(* SpecSet: set by key with documents of any id, among appends, deletes and *)
(* reloads                                                                  *)

NextSet ==
    \/ \E doc \in {DocA1, DocB2} : DoAppend(doc, TRUE, TRUE) /\ NoHistory
    \/ \E k \in Keys, doc \in Docs : SetKey(k, doc) /\ NoHistory
    \/ \E k \in Keys : DelKey(k) /\ NoHistory
    \/ Reload /\ NoHistory

SpecSet == Init /\ [][NextSet]_vars

----------------------------------------------------------------------------
(* SpecOrd: reads and deletes by ordinal, reads by slice and iteration among *)
(* flushed and unflushed appends and reloads                                *)

NextOrd ==
    \/ \E doc \in {DocA1, DocB2}, flush \in BOOLEAN :
          DoAppend(doc, flush, TRUE) /\ NoHistory
    \/ \E i \in Ordinals : GetInt(i) /\ NoHistory
    \/ \E i \in Ordinals : DelInt(i) /\ NoHistory
    \/ GetSlice(FullSlice) /\ NoHistory
    \/ Iterate /\ NoHistory
    \/ Reload /\ NoHistory

SpecOrd == Init /\ [][NextOrd]_vars

----------------------------------------------------------------------------
(* SpecIter: a caller steps through the generator of __iter__ while it      *)
(* appends, deletes and reloads                                             *)

NextIter ==
    \/ \E doc \in {DocA1, DocB2} :
          /\ DoAppend(doc, TRUE, TRUE)
          /\ gen' = Track(gen, header_map')
          /\ UNCHANGED <<appended, written>>
    \/ \E k \in Keys :
          /\ DelKey(k)
          /\ gen' = Track(gen, header_map')
          /\ UNCHANGED <<appended, written>>
    \/ Reload /\ gen' = Rebound(gen) /\ UNCHANGED <<appended, written>>
    \/ IterNext /\ UNCHANGED <<appended, written>>

SpecIter == Init /\ [][NextIter]_vars

TypeOK ==
    /\ start \in Int
    /\ bodyPos >= Len(bodyBuf)
    /\ \A i \in DOMAIN header_map : header_map[i].idx < Len(headerFile) + Len(headerBuf)
    /\ gen.on => gen.pos <= Len(gen.arr) /\ gen.left <= gen.used

----------------------------------------------------------------------------
(* C1: append then get by key *)

\* C1, as claimed: whatever the values of flush and update_buffer, a get of
\* the key right after append(r) returns r.
C1_RoundTripAnyFlags ==
    last.op = "append" => getitem(Cur, last.doc.id) = Found(last.doc)

\* C1, amended: after append(r) with update_buffer true, whatever the value of
\* flush, a get of the key returns r.
C1_RoundTripBuffered ==
    (last.op = "append" /\ last.ub) => getitem(Cur, last.doc.id) = Found(last.doc)

\* an unflushed append of a new version of a key that has an older entry in
\* the header file, read back while its bytes are still in the write buffer
C1_Witness ==
    /\ last.op = "append" /\ last.ub /\ ~last.flush
    /\ bodyBuf = binary_str(last.doc)
    /\ \E i \in DOMAIN headerFile :
          headerFile[i].key = last.doc.id /\ ~IsNone(headerFile[i])
    /\ getitem(Cur, last.doc.id) = Found(last.doc)

----------------------------------------------------------------------------
(* C2: len against the history of appends and deletes *)

RECURSIVE SumOver(_, _)
SumOver(f, ks) ==
    IF ks = {} THEN 0
    ELSE LET k == CHOOSE x \in ks : TRUE
         IN  f[k] + SumOver(f, ks \ {k})

\* C2, as claimed: len() is the number of appended records whose key was not
\* deleted afterwards.
C2_LenCountsRecords == len(Cur) = SumOver(appended, Keys)

\* C2, amended: len() is the number of distinct keys that were appended (or
\* live at the load) and not deleted afterwards.
C2_LenCountsKeys == len(Cur) = Cardinality({k \in Keys : appended[k] > 0})

\* a key appended twice is live next to the key just deleted
C2_Witness ==
    /\ last.op = "del_key" /\ last.err = ""
    /\ \E k \in Keys : appended[k] = 2 /\ contains(Cur, k)
    /\ len(Cur) = 1

----------------------------------------------------------------------------
(* C3: delete by key *)

\* C3: after delete(k) of a live key k, contains(k) is false, get(k) fails
\* with a missing-key error also when k was cached, len() is one less and
\* the body file is as it was.
C3_DeleteLiveKey ==
    [][\A k \in Keys :
         (last'.op = "del_key" /\ last'.key = k /\ contains(Cur, k)) =>
            /\ last'.err = ""
            /\ ~contains(Cur', k)
            /\ getitem(Cur', k) = Failed("KeyError")
            /\ len(Cur') = len(Cur) - 1
            /\ bodyFile' = bodyFile
            /\ bodyBuf' = bodyBuf]_vars

\* a key was deleted whose bytes are still in the body, while the other key
\* stays cached and live
C3_Witness ==
    /\ last.op = "del_key" /\ last.err = ""
    /\ ~contains(Cur, last.key)
    /\ last.key \notin PoolKeys(buffer_pool)
    /\ \E i \in DOMAIN headerFile :
          headerFile[i] = Entry(last.key, -1, -1, -1)
    /\ Len(bodyFile) > 0
    /\ \E k \in Keys : contains(Cur, k) /\ k \in PoolKeys(buffer_pool)

----------------------------------------------------------------------------
(* C4: the header file against the in-memory index *)

\* key -> byte range of a header map
Ranges(m) == {<<m[i].key, m[i].p, m[i].r, m[i].l>> : i \in DOMAIN m}

\* C4: with every write flushed, the live mapping a reload would rebuild from
\* the header file has the keys and the byte ranges of the in-memory one.
C4_HeaderMirrorsIndex ==
    headerBuf = <<>> => Ranges(LoadMap(headerFile)) = Ranges(header_map)

----------------------------------------------------------------------------
(* C5: the write cursor after reload *)

\* C5: reload succeeds and leaves the cursor at the end of the last write made
\* to the body, also when the last header slot, or every slot, is a tombstone.
C5_ReloadResumes ==
    last.op = "reload" => (last.err = "" /\ start = written)

----------------------------------------------------------------------------
(* C6: set by ordinal with a record of another key *)

\* C6: after set(i, r), where slot i holds the live key k_old and r.key is
\* another key, k_old is gone from the index, r.key is in it and get(r.key)
\* returns r.
C6_SetIntReplacesKey ==
    [][\A i \in Ordinals, doc \in Docs :
         (/\ last'.op = "set_int" /\ last'.ord = i /\ last'.doc = doc
          /\ i < len(Cur)
          /\ contains(Cur, int2str_id(Cur, i))
          /\ int2str_id(Cur, i) # doc.id) =>
            /\ ~contains(Cur', int2str_id(Cur, i))
            /\ contains(Cur', doc.id)
            /\ getitem(Cur', doc.id) = Found(doc)]_vars

----------------------------------------------------------------------------
(* C7, C8: compaction *)

\* the (key, record) pairs iteration yields
IterPairs(S) == {<<iter(S)[i].key, iter(S)[i].err, iter(S)[i].doc>> : i \in DOMAIN iter(S)}

\* C7: prune() changes neither the set of (key, record) pairs that iterating
\* the store yields nor len().
C7_PrunePreservesContent ==
    [][last'.op = "prune" =>
         (IterPairs(Cur') = IterPairs(Cur) /\ len(Cur') = len(Cur))]_vars

HeaderBytes(hf) == Len(hf) * HeaderEntrySize

\* C8: after prune() the header file holds len() entries and no tombstone,
\* and neither file is larger than before.
C8_PruneShrinksFiles ==
    [][(last'.op = "prune" /\ last'.err = "") =>
         /\ HeaderBytes(headerFile') = len(Cur') * (4 * KeyLength + 24)
         /\ \A i \in DOMAIN headerFile' : ~IsNone(headerFile'[i])
         /\ HeaderBytes(headerFile') <= HeaderBytes(headerFile)
         /\ Len(bodyFile') <= Len(bodyFile)]_vars

----------------------------------------------------------------------------
(* C9, C10: a crash inside extend and inside prune *)

\* C9: after a crash inside extend and a reopen, the payload of every key of
\* the live index is in the body file, and a batch that was not flushed has
\* added no entry to the header file.
C9_CrashKeepsVisibleRecordsWhole ==
    [][last'.op = "crash_extend" =>
         /\ \A i \in DOMAIN header_map' :
               header_map'[i].p + header_map'[i].l <= Len(bodyFile')
         /\ (last'.point = 0 => headerFile' = headerFile)]_vars

\* C10: wherever prune() is cut short, the directory holds the header and body
\* of before prune, or the compacted header and body.
C10_PruneReplacesAtomically ==
    [][\A point \in 0..4 :
         (last'.op = "crash_prune" /\ last'.point = point) =>
            LET d == PruneCrashDisk(Cur, point)
            IN  /\ d.hx /\ d.bx
                /\ \/ (d.hf = headerFile /\ d.bf = bodyFile)
                   \/ (d.hf = Compacted(Cur).hf /\ d.bf = Compacted(Cur).bf)]_vars

----------------------------------------------------------------------------
(* C11: the offsets append writes *)

\* C11: an append of a payload of length L at cursor W writes the header entry
\* (floor(W / PAGE_SIZE) * PAGE_SIZE, W mod PAGE_SIZE, W mod PAGE_SIZE + L),
\* whose page offset and start add up to W, and moves the cursor to W + L.
C11_AppendOffsets ==
    [][\A doc \in Docs :
         (last'.op = "append" /\ last'.doc = doc) =>
            LET W  == start
                L  == Len(binary_str(doc))
                hf == headerFile' \o headerBuf'
                e  == hf[Len(hf)]
            IN  /\ e.key = doc.id
                /\ e.p = (W \div PAGE_SIZE) * PAGE_SIZE
                /\ e.r = W % PAGE_SIZE
                /\ 0 <= e.r /\ e.r < PAGE_SIZE
                /\ e.p + e.r = W
                /\ e.l = e.r + L
                /\ start' = W + L]_vars

----------------------------------------------------------------------------
(* C12: set by key *)

\* C12: set(k, r) with a string key k gives r the key k and appends it as a
\* new version: afterwards k is contained, get(k) returns r with key k, and
\* len() is one more if k was not live and unchanged if it was.
C12_SetKeyAppendsVersion ==
    [][\A k \in Keys, doc \in Docs :
         (last'.op = "set_key" /\ last'.key = k /\ last'.doc = doc) =>
            LET r  == [doc EXCEPT !.id = k]
                hf == headerFile' \o headerBuf'
            IN  /\ last'.err = ""
                /\ contains(Cur', k)
                /\ getitem(Cur', k) = Found(r)
                /\ getitem(Cur', k).doc.id = k
                /\ len(Cur') = IF contains(Cur, k) THEN len(Cur) ELSE len(Cur) + 1
                /\ Len(hf) = Slots(Cur) + 1
                /\ hf[Len(hf)].key = k]_vars

\* a record that came with another key was set under a key that already had
\* a version in the header file, next to a second live key
C12_Witness ==
    /\ last.op = "set_key" /\ last.err = ""
    /\ last.doc.id # last.key
    /\ getitem(Cur, last.key) = Found([last.doc EXCEPT !.id = last.key])
    /\ Len(headerFile) >= 2
    /\ headerFile[Len(headerFile)].key = last.key
    /\ \E i \in 1..(Len(headerFile) - 1) :
          headerFile[i].key = last.key /\ ~IsNone(headerFile[i])
    /\ len(Cur) = 2

----------------------------------------------------------------------------
(* C13: reload twice *)

\* C13: a second reload right after a reload yields the same live mapping
\* (keys, ordinals, byte ranges) and the same cursor and leaves the files
\* alone, and the first reload wrote nothing of its own: the files hold what
\* had been written to them, the appends still pending in the write buffers
\* of the file objects it closed included.
C13_ReloadIdempotent ==
    [][last'.op = "reload" =>
         /\ reload(Cur').map = header_map'
         /\ reload(Cur').start = start'
         /\ reload(Cur').hf = headerFile'
         /\ reload(Cur').bf = bodyFile'
         /\ headerFile' = headerFile \o headerBuf
         /\ bodyFile' = FlushBody(Cur).bf
         /\ headerBuf' = <<>> /\ bodyBuf' = <<>>]_vars

\* a reload has read a header file with a tombstone and a live entry, and a
\* second reload finds the same mapping
C13_Witness ==
    /\ last.op = "reload" /\ last.err = ""
    /\ Len(headerFile) = MaxSlots
    /\ \E i \in DOMAIN headerFile : IsNone(headerFile[i])
    /\ len(Cur) >= 1
    /\ buffer_pool = EmptyPool
    /\ reload(Cur).map = header_map /\ reload(Cur).start = start

----------------------------------------------------------------------------
(* C14, C15: ordinals and header slots *)

\* C14: for every live key, the ordinal the in-memory index stores is the
\* position of the key's current entry in the header file: the slot at that
\* position holds the key with its current (page_offset, start, end).
C14_OrdinalIsPhysicalSlot ==
    \A i \in DOMAIN header_map :
        LET e  == header_map[i]
            hf == headerFile \o headerBuf
        IN  /\ e.idx + 1 \in DOMAIN hf
            /\ hf[e.idx + 1] = Entry(e.key, e.p, e.r, e.l)

\* the header slots that hold the current entry of a live key
LiveSlots(S, k) ==
    LET e  == MapGet(S.map, k)
        hf == S.hf \o S.hb
    IN  {j \in DOMAIN hf : hf[j] = Entry(k, e.p, e.r, e.l)}

\* C15: delete(k) of a live key k writes the tombstone over the header slot
\* that holds k's live entry and over no other slot, and leaves the in-memory
\* entry of every other live key as it was.
C15_DeleteTombstonesOwnSlot ==
    [][\A k \in Keys :
         (last'.op = "del_key" /\ last'.key = k /\ contains(Cur, k)) =>
            LET hf == headerFile \o headerBuf
                j  == CHOOSE x \in LiveSlots(Cur, k) :
                         \A y \in LiveSlots(Cur, k) : y <= x
            IN  /\ LiveSlots(Cur, k) # {}
                /\ headerFile' \o headerBuf' = [hf EXCEPT ![j] = Entry(k, -1, -1, -1)]
                /\ \A k2 \in Keys \ {k} :
                      contains(Cur, k2) =>
                         /\ contains(Cur', k2)
                         /\ MapGet(header_map', k2) = MapGet(header_map, k2)]_vars

----------------------------------------------------------------------------
(* C16: ordinals beyond the header file *)

\* what has been written to the header file, pending entries included
Written(S) == S.hf \o S.hb

\* C16: a get or a delete by an ordinal at or beyond the number of header
\* slots raises IndexError and changes nothing of the store (index, cursor,
\* pool, what has been written to the files); an append after it adds one
\* entry right after the last slot, and the live keys a load finds in that
\* header file are those of the header file before and the appended one.
C16_OutOfRangeOrdinal ==
    [][(last'.op \in {"get_int", "del_int"} /\ last'.ord >= Slots(Cur)) =>
         /\ last'.err = "IndexError"
         /\ header_map' = header_map
         /\ start' = start
         /\ buffer_pool' = buffer_pool
         /\ Written(Cur') = Written(Cur)
         /\ FlushBody(Cur').bf = FlushBody(Cur).bf
         /\ \A doc \in Docs :
               \A after \in {Written(append(Cur', doc, FALSE, TRUE))} :
                   /\ Len(after) = Slots(Cur) + 1
                   /\ SubSeq(after, 1, Slots(Cur)) = Written(Cur)
                   /\ after[Len(after)].key = doc.id
                   /\ MapKeys(LoadMap(after)) =
                         MapKeys(LoadMap(Written(Cur))) \cup {doc.id}]_vars

\* a delete by an ordinal beyond the slots of a header file that holds a live
\* entry and a tombstone has raised IndexError
C16_Witness ==
    /\ last.op = "del_int" /\ last.err = "IndexError"
    /\ last.ord >= Slots(Cur)
    /\ Slots(Cur) = 2
    /\ len(Cur) = 1
    /\ \E j \in DOMAIN headerFile : IsNone(headerFile[j])

----------------------------------------------------------------------------
(* C17: invariant I1 *)

\* the byte range [from, to) of an item of the header map
From(e) == e.p + e.r

To(e) == e.p + e.l

\* C17 (I1): every key of the live index has one entry, whose byte range is
\* no tombstone and lies within the bytes written to the body, and the ranges
\* of two live keys do not overlap.
C17_LiveRangesDisjoint ==
    /\ \A i, j \in DOMAIN header_map :
          i # j => header_map[i].key # header_map[j].key
    /\ \A i \in DOMAIN header_map :
          LET e == header_map[i]
          IN  /\ ~IsNone(e)
              /\ 0 <= From(e) /\ From(e) < To(e)
              /\ To(e) <= Len(FlushBody(Cur).bf)
    /\ \A i, j \in DOMAIN header_map :
          i # j => \/ To(header_map[i]) <= From(header_map[j])
                   \/ To(header_map[j]) <= From(header_map[i])

----------------------------------------------------------------------------
(* C18: invariant I4 *)

\* the operations that load the header file
Loads == {"init", "reload", "clear", "prune", "crash_extend", "crash_prune"}

\* C18 (I4): between two loads the cursor never decreases; an append moves it
\* forward by the length of its payload, a delete and a read leave it alone.
C18_CursorMonotone ==
    [][last'.op \notin Loads =>
         /\ start' >= start
         /\ last'.op = "append" => start' = start + Len(binary_str(last'.doc))
         /\ last'.op \in {"del_key", "del_int", "del_slice",
                          "get_int", "get_slice", "iterate"} => start' = start]_vars

----------------------------------------------------------------------------
(* C19: iteration *)

\* C19: iteration yields len() records, one for each key of the live index
\* and in the order of the index (the order in which the keys came into it),
\* every one of them read without failure, and yields the same again when it
\* is restarted.
C19_IterationYieldsLiveKeys ==
    LET it == iter(Cur)
    IN  /\ Len(it) = len(Cur)
        /\ \A i \in DOMAIN it : it[i].err = "" /\ it[i].key = header_map[i].key
        /\ \A i, j \in DOMAIN it : i # j => it[i].key # it[j].key
        /\ IterUpTo(Cur, len(Cur)) = it

----------------------------------------------------------------------------
(* C20: the full slice against iteration *)

\* C20: self[:] succeeds and returns the records iteration yields, in the
\* same order, and every ordinal the slice resolves to is a header slot whose
\* key is live.
C20_FullSliceIsIteration ==
    LET g    == get_doc_array_by_slice(Cur, FullSlice)
        idxs == iteridx_by_slice(Cur, FullSlice)
        s1   == int2str_flush(Cur)
    IN  /\ g.err = ""
        /\ ~IterFails(Cur)
        /\ g.docs = IterDocs(Cur)
        /\ \A n \in DOMAIN idxs :
              /\ int2str_ok(s1, idxs[n])
              /\ contains(s1, int2str_id(s1, idxs[n]))

----------------------------------------------------------------------------
(* C21: the buffer pool against the live index *)

\* C21: every key cached in the buffer pool is a key of the live index, so a
\* get of a key that is not contained fails; after clear() len() is 0 and the
\* get of every key fails with a missing-key error.
C21_PoolKeysAreLive ==
    /\ PoolKeys(buffer_pool) \subseteq MapKeys(header_map)
    /\ \A k \in Keys : ~contains(Cur, k) => getitem(Cur, k).err # ""
    /\ last.op = "clear" =>
          /\ len(Cur) = 0
          /\ \A k \in Keys : getitem(Cur, k) = Failed("KeyError")

====
